---- MODULE Spec2Model ----
(***************************************************************************)
(* Disk-usage recorder (save.py) and navigator (fe4.py).                   *)
(*                                                                         *)
(* The recorder walks target directories, sizes every directory with       *)
(* get_size and inserts a row (path, size, timestamp) into the store for   *)
(* each directory whose size differs from the last recorded one.  All      *)
(* inserts of one run go through one sqlite connection and are committed   *)
(* by the single conn.commit() at the end of record_sizes.  The navigator  *)
(* reads the store through its own connections and keeps what it read in   *)
(* size_cache.                                                             *)
(*                                                                         *)
(* Paths are strings, modelled as sequences of one-character strings, so   *)
(* that str.startswith (a character prefix) and path nesting (a component  *)
(* prefix) are different relations, as they are in the code.               *)
(***************************************************************************)
EXTENDS Integers, Sequences, FiniteSets, TLC

\* ------------------------------------------------------------------ bounds

\* Largest size of a file of the model's filesystem, in bytes.
MaxFileSize == 2
\* Number of filesystem changes (file added, removed) in one behaviour.
MaxChanges == 1
\* Number of recorder runs started in one behaviour.
MaxRuns == 3
\* Last second of the clock.
MaxTime == 1
\* Number of points by which the longest history exceeds the terminal's width.
MaxScroll == 2
\* Number of Enter key events in one navigator session.
MaxEnters == 2

\* ------------------------------------------------------------------- paths

Sep == "/"

\* os.path.join(dirpath, name) for a dirpath that does not end in a separator
Join(dirpath, name) == dirpath \o <<Sep>> \o name

\* str.startswith: a prefix of characters
StartsWith(s, prefix) ==
    /\ Len(prefix) <= Len(s)
    /\ SubSeq(s, 1, Len(prefix)) = prefix

\* The directories of the model's filesystem:
\*   /d        a directory on device 1
\*   /d/a      a plain subdirectory
\*   /d/p      a subdirectory that may be a mount point (see mtab)
\*   /d/p/s    a directory inside /d/p
\*   /d/p2     a plain subdirectory whose name begins like /d/p
D   == <<Sep, "d">>
DA  == Join(D, <<"a">>)
DP  == Join(D, <<"p">>)
DPS == Join(DP, <<"s">>)
DP2 == Join(D, <<"p", "2">>)

Dirs == {D, DA, DP, DPS, DP2}

\* the names of the subdirectories of a directory, in the order scandir lists them
SubdirNames(d) ==
    IF d = D THEN << <<"a">>, <<"p">>, <<"p", "2">> >>
    ELSE IF d = DP THEN << <<"s">> >>
    ELSE << >>

\* the directories that may hold the regular file "f"
FileDirs == {DA, DPS, DP2}
FileName == <<"f">>
\* /d/l is a symbolic link to /d/a
LinkName == <<"l">>
LinkDirs == {D}

\* the states of the mount table entry of /d/p:
\*   plain   /d/p is an ordinary directory of device 1
\*   mount   another filesystem (device 2, ext4) is mounted on /d/p
\*   bind    a directory of device 1 is bind-mounted on /d/p
\*   pseudo  a tmpfs (device 2) is mounted on /d/p
MountTables ==
    { [mounted |-> FALSE, dev |-> 1, fstype |-> "ext4"],
      [mounted |-> TRUE,  dev |-> 2, fstype |-> "ext4"],
      [mounted |-> TRUE,  dev |-> 1, fstype |-> "ext4"],
      [mounted |-> TRUE,  dev |-> 2, fstype |-> "tmpfs"] }

PseudoTypes == {"proc", "sysfs", "tmpfs", "devpts", "cgroup", "squashfs",
                "devtmpfs", "overlay", "fusectl", "fuse.sshfs"}

VARIABLES
    \* the filesystem
    files,                \* files[d]: the sizes of the regular files of d (d/f, or none)
    mtab,                 \* the mount table entry of /d/p
    changes,              \* number of filesystem changes so far
    lastChange,           \* the last filesystem change
    clock,                \* time.time(), in seconds
    \* the store
    store,                \* the committed rows of directory_snapshot, in rowid order
    \* the recorder (save.py)
    target_directories,   \* the command line
    pc,                   \* "idle", "target" (line 115) or "walk" (line 132)
    ti,                   \* index of the current target
    walk,                 \* directories os.walk has still to yield, next first
    txn,                  \* rows inserted by the run and not yet committed
    updated_directories,
    timestamp,
    excluded_mounts,
    root_dev,
    printed,              \* what the last finished run printed
    runs,                 \* number of runs started
    \* the navigator (fe4.py)
    size_cache,           \* the "snapshot_" entries of size_cache
    directories_sizes,    \* what the navigator last read for its listing
    size_data,            \* the history the navigator last read for its chart
    session,              \* the locals of display_directories and the terminal
    tree,                 \* "full", or "bare": the root directory has no subdirectory
    db,                   \* "ok", or "locked": sqlite raises OperationalError on a read
    \* one scan (get_size called on its own)
    scan,
    \* history of the recorder's runs: whether a run has committed (prevDone),
    \* the values of changes at the start and the end of the last committed run
    \* and at the start of the current one, Len(store) at the start of the
    \* current run, whether the last committed run ran unattended, and how the
    \* last run ended
    hist

fsVars   == <<files, mtab, changes, lastChange, clock>>
recVars  == <<target_directories, pc, ti, walk, txn, updated_directories,
              timestamp, excluded_mounts, root_dev, printed, runs>>
uiVars   == <<session, tree, db>>
navVars  == <<size_cache, directories_sizes, size_data, uiVars>>
vars     == <<files, mtab, changes, lastChange, clock, store,
              target_directories, pc, ti, walk, txn, updated_directories,
              timestamp, excluded_mounts, root_dev, printed, runs,
              size_cache, directories_sizes, size_data, session, tree, db,
              scan, hist>>

\* -------------------------------------------------------------- filesystem

\* nested under (or equal to) a directory, component-wise
Under(p, d) == p = d \/ StartsWith(p, d \o <<Sep>>)

\* os.stat(path).st_dev of a directory
st_dev(d) == IF Under(d, DP) THEN mtab.dev ELSE 1

Parent(d) == IF d \in {DA, DP, DP2} THEN D ELSE IF d = DPS THEN DP ELSE <<Sep>>

\* os.path.ismount(path): the device differs from the parent's (the inode of a
\* directory of the model never equals its parent's)
ismount(d) == d \in Dirs /\ d # D /\ st_dev(d) # st_dev(Parent(d))

\* the mount points the kernel knows
IsMountPoint(d) == d = DP /\ mtab.mounted

\* psutil.disk_partitions(all=True), as far as the model's directories go
partitions ==
    IF mtab.mounted THEN {[mountpoint |-> DP, fstype |-> mtab.fstype, opts |-> "rw"]}
    ELSE {}

\* os.scandir(d): the entries of a directory in listing order.  A
\* subdirectory's device is its own, a file's and a link's (lstat) the one of
\* the directory that holds it.
Entries(d, fs) ==
    LET names == SubdirNames(d)
        subdirs == [i \in 1..Len(names) |->
                      [path |-> Join(d, names[i]), kind |-> "dir", size |-> 0,
                       dev |-> st_dev(Join(d, names[i]))]]
        link == IF d \in LinkDirs
                THEN << [path |-> Join(d, LinkName), kind |-> "link", size |-> 0,
                         dev |-> st_dev(d)] >>
                ELSE << >>
        file == IF d \in FileDirs /\ fs[d] # << >>
                THEN << [path |-> Join(d, FileName), kind |-> "file", size |-> fs[d][1],
                         dev |-> st_dev(d)] >>
                ELSE << >>
    IN  subdirs \o link \o file

\* What fails during one scan: the directories scandir cannot open and the
\* entries whose stat raises (PermissionError or FileNotFoundError).
NoFaults == [open |-> {}, stat |-> {}]

\* ---------------------------------------------------------- get_size (save.py)

\* The for loop of lines 70-79 over the entries es still to come of one
\* directory.  acc is [total, stack].  An entry whose stat raises ends the
\* loop: the except clause of line 80 is outside it.
RECURSIVE ScanEntries(_, _, _, _, _)
ScanEntries(es, dev, excluded, faults, acc) ==
    IF es = << >> THEN acc
    ELSE LET entry == Head(es) IN
         IF entry.path \in faults.stat THEN acc
         ELSE IF \/ entry.dev # dev
                 \/ \E mount \in excluded : StartsWith(entry.path, mount)
              THEN ScanEntries(Tail(es), dev, excluded, faults, acc)
         ELSE IF entry.kind = "dir"
              THEN ScanEntries(Tail(es), dev, excluded, faults,
                               [acc EXCEPT !.stack = Append(@, entry.path)])
         ELSE IF entry.kind = "file"
              THEN ScanEntries(Tail(es), dev, excluded, faults,
                               [acc EXCEPT !.total = @ + entry.size])
         ELSE ScanEntries(Tail(es), dev, excluded, faults, acc)

\* The while loop of lines 66-82: pops the last path of the stack and scans it.
\* visited lists the directories popped, in order.
RECURSIVE ScanLoop(_, _, _, _, _, _, _)
ScanLoop(stack, total, visited, dev, excluded, fs, faults) ==
    IF stack = << >> THEN [total |-> total, visited |-> visited]
    ELSE LET current_path == stack[Len(stack)]
             rest == SubSeq(stack, 1, Len(stack) - 1)
         IN  IF current_path \in faults.open
             THEN ScanLoop(rest, total, Append(visited, current_path),
                           dev, excluded, fs, faults)
             ELSE LET r == ScanEntries(Entries(current_path, fs), dev, excluded,
                                       faults, [total |-> total, stack |-> rest])
                  IN  ScanLoop(r.stack, r.total, Append(visited, current_path),
                               dev, excluded, fs, faults)

ScanOf(path, dev, excluded, fs, faults) ==
    ScanLoop(<<path>>, 0, << >>, dev, excluded, fs, faults)

get_size(path, dev, excluded, fs, faults) ==
    ScanOf(path, dev, excluded, fs, faults).total

get_root_dev(path) == st_dev(path)

\* line 111: the mount points of loop-mounted and pseudo filesystems
ExcludedMounts ==
    {part.mountpoint : part \in {q \in partitions :
                                   q.opts = "loop" \/ q.fstype \in PseudoTypes}}

\* ------------------------------------------------------------------- store

Row(path, size, ts) == [path |-> path, size |-> size, timestamp |-> ts]

RowsOf(rows, path) == SelectSeq(rows, LAMBDA r : r.path = path)

MaxTimestamp(rows) ==
    CHOOSE t \in {rows[i].timestamp : i \in 1..Len(rows)} :
        \A i \in 1..Len(rows) : rows[i].timestamp <= t

\* a variant that orders the rows the other way round (ORDER BY timestamp
\* ASC): the oldest row of the path
get_first_recorded_size(rows, dirpath) ==
    LET rs == RowsOf(rows, dirpath) IN
    IF rs = << >> THEN << >> ELSE << rs[1].size >>

\* SELECT size ... WHERE path = ? ORDER BY timestamp DESC LIMIT 1 (lines 91-98):
\* << >> is None.  The query runs backwards over idx_path_timestamp (line 56),
\* whose entries are ordered by (path, timestamp, rowid): among the rows of the
\* greatest timestamp it returns the one inserted last.
get_last_recorded_size(rows, dirpath) ==
    LET rs == RowsOf(rows, dirpath) IN
    IF rs = << >> THEN << >>
    ELSE LET latest == {i \in 1..Len(rs) : rs[i].timestamp = MaxTimestamp(rs)}
             last == CHOOSE i \in latest : \A j \in latest : j <= i
         IN  << rs[last].size >>

\* cursor.execute('INSERT INTO directory_snapshot ...') (lines 129, 142)
InsertRow(rows, path, size, ts) == Append(rows, Row(path, size, ts))

\* ------------------------------------------------- the navigator's reads (fe4.py)

\* the directory the navigator lists and the entry whose chart it draws
NavDirs == {D}
ChartDirs == {DA}

\* SELECT path, MAX(timestamp), size ... WHERE path LIKE 'directory%' GROUP BY
\* path (lines 127-136), as the dict of line 141.  The size is a bare column of
\* an aggregate query: of the rows of a path that share the greatest timestamp,
\* sqlite takes it from any one.  The navigator's connection sees committed
\* rows only.
LatestOf(rows, path) ==
    LET rs == RowsOf(rows, path)
    IN  {rs[i].size : i \in {j \in 1..Len(rs) : rs[j].timestamp = MaxTimestamp(rs)}}

RECURSIVE DictsOver(_, _)
DictsOver(rows, paths) ==
    IF paths = {} THEN {<< >>}
    ELSE LET p == CHOOSE x \in paths : TRUE
         IN  {(p :> size) @@ f : size \in LatestOf(rows, p),
                                 f \in DictsOver(rows, paths \ {p})}

LatestSizes(rows, directory) ==
    DictsOver(rows, {rows[i].path : i \in {j \in 1..Len(rows) :
                                             StartsWith(rows[j].path, directory)}})

\* get_last_snapshot_size has to read the store (lines 123-137) and the read
\* raises sqlite3.OperationalError
SnapshotRaises(directory) ==
    /\ ~(/\ size_cache.snapshot[directory] # << >>
         /\ DOMAIN size_cache.snapshot[directory][1] # {})
    /\ db = "locked"

\* get_last_snapshot_size (lines 115-144): what a call may return.  A cached
\* dict that is not empty is returned as it is.
SnapshotResults(directory) ==
    IF /\ size_cache.snapshot[directory] # << >>
       /\ DOMAIN size_cache.snapshot[directory][1] # {}
    THEN {size_cache.snapshot[directory][1]}
    ELSE LatestSizes(store, directory)

\* lines 235-236: the navigator builds the listing of target_directory
get_last_snapshot_size ==
    \E directory \in NavDirs : \E f \in SnapshotResults(directory) :
        /\ size_cache' = [size_cache EXCEPT !.snapshot[directory] = <<f>>]
        /\ directories_sizes' = f
        /\ UNCHANGED <<fsVars, store, recVars, size_data, uiVars, scan, hist>>

\* SELECT timestamp, size ... WHERE path = ? ORDER BY timestamp (lines 81-89)
\* returns the rows of the path by timestamp; rows of one timestamp come in
\* the order of the index, that is in rowid order.
RECURSIVE SortedByTime(_, _)
SortedByTime(rs, t) ==
    IF t < 0 THEN << >>
    ELSE SortedByTime(rs, t - 1)
         \o SelectSeq(rs, LAMBDA r : r.timestamp = t)

History(rows, directory) ==
    LET all == RowsOf(rows, directory)
        rs == IF all = << >> THEN << >>
              ELSE SortedByTime(all, MaxTimestamp(all))
    IN  [i \in 1..Len(rs) |-> <<rs[i].timestamp, rs[i].size>>]

\* get_directory_size_data (lines 69-97): a directory found in the cache is
\* not read again, whatever was cached for it
get_directory_size_data ==
    \E directory \in ChartDirs :
        /\ IF size_cache.data[directory] # << >>
           THEN /\ size_data' = size_cache.data[directory][1]
                /\ UNCHANGED size_cache
           ELSE /\ size_data' = History(store, directory)
                /\ size_cache' = [size_cache EXCEPT
                                    !.data[directory] = <<History(store, directory)>>]
        /\ UNCHANGED <<fsVars, store, recVars, directories_sizes, uiVars, scan,
                       hist>>

\* ---------------------------------------------------- record_sizes (save.py)

TargetLists ==
    { <<D>>, <<DPS>>, <<DP>>, <<D, DA>>, <<D, D>> }

\* the rows the run's connection sees: the committed ones and its own
Visible == store \o txn

\* lines 125 and 138
NeedsRow(last_size, dir_size) == last_size = << >> \/ last_size[1] # dir_size

\* lines 123-130 and 136-143: compare with the last recorded size, insert a
\* row and note the directory when it differs
RecordedTxn(dirpath, dir_size) ==
    IF NeedsRow(get_last_recorded_size(Visible, dirpath), dir_size)
    THEN InsertRow(txn, dirpath, dir_size, timestamp)
    ELSE txn

\* a variant that notes every directory visited, changed or not
RecordedUpdatesAlways(dirpath, dir_size) ==
    Append(updated_directories, <<dirpath, dir_size>>)

RecordedUpdates(dirpath, dir_size) ==
    IF NeedsRow(get_last_recorded_size(Visible, dirpath), dir_size)
    THEN Append(updated_directories, <<dirpath, dir_size>>)
    ELSE updated_directories

\* line 134 and os.walk's descent: the subdirectories of dirpath that are
\* neither an excluded mount (the very path) nor a mount point.  The link /d/l
\* stays in dirnames and os.walk does not descend into it.
WalkInto(dirpath) ==
    LET names == SubdirNames(dirpath)
        kept == SelectSeq(names, LAMBDA n :
                    /\ Join(dirpath, n) \notin excluded_mounts
                    /\ ~ismount(Join(dirpath, n)))
    IN  [i \in 1..Len(kept) |-> Join(dirpath, kept[i])]

AtEnd == pc = "target" /\ ti > Len(target_directories)

\* lines 108-114: a run starts
RunStart ==
    /\ pc = "idle"
    /\ runs < MaxRuns
    /\ runs' = runs + 1
    /\ updated_directories' = << >>
    /\ timestamp' = clock
    /\ excluded_mounts' = ExcludedMounts
    /\ txn' = << >>
    /\ ti' = 1
    /\ pc' = "target"
    /\ printed' = << >>
    /\ hist' = [hist EXCEPT !.curStart = changes, !.startLen = Len(store),
                            !.last = "running"]
    /\ UNCHANGED <<fsVars, store, target_directories, walk, root_dev,
                   navVars, scan>>

\* lines 117-119: a target that is an excluded mount is skipped
TargetSkip ==
    /\ pc = "target"
    /\ ti <= Len(target_directories)
    /\ target_directories[ti] \in excluded_mounts
    /\ ti' = ti + 1
    /\ UNCHANGED <<fsVars, store, target_directories, pc, walk, txn,
                   updated_directories, timestamp, excluded_mounts, root_dev,
                   printed, runs, navVars, scan, hist>>

\* lines 121-130: the target itself
TargetStep ==
    /\ pc = "target"
    /\ ti <= Len(target_directories)
    /\ target_directories[ti] \notin excluded_mounts
    /\ LET target_directory == target_directories[ti]
           dev == get_root_dev(target_directory)
           dir_size == get_size(target_directory, dev, excluded_mounts, files, NoFaults)
       IN  /\ root_dev' = dev
           /\ txn' = RecordedTxn(target_directory, dir_size)
           /\ updated_directories' = RecordedUpdates(target_directory, dir_size)
           /\ walk' = <<target_directory>>
    /\ pc' = "walk"
    /\ UNCHANGED <<fsVars, store, target_directories, ti, timestamp,
                   excluded_mounts, printed, runs, navVars, scan, hist>>

\* lines 132-143: one directory of os.walk
WalkStep ==
    /\ pc = "walk"
    /\ walk # << >>
    /\ LET dirpath == Head(walk)
           dir_size == get_size(dirpath, root_dev, excluded_mounts, files, NoFaults)
       IN  /\ txn' = RecordedTxn(dirpath, dir_size)
           /\ updated_directories' = RecordedUpdates(dirpath, dir_size)
           /\ walk' = WalkInto(dirpath) \o Tail(walk)
    /\ UNCHANGED <<fsVars, store, target_directories, pc, ti, timestamp,
                   excluded_mounts, root_dev, printed, runs, navVars, scan, hist>>

\* the for loop of line 132 is exhausted: on to the next target
WalkEnd ==
    /\ pc = "walk"
    /\ walk = << >>
    /\ pc' = "target"
    /\ ti' = ti + 1
    /\ UNCHANGED <<fsVars, store, target_directories, walk, txn,
                   updated_directories, timestamp, excluded_mounts, root_dev,
                   printed, runs, navVars, scan, hist>>

\* is_running_in_cron (line 36) and lines 148-150
Report(in_cron) == IF in_cron THEN << >> ELSE updated_directories

\* The process ends: its variables are gone (they are given the values they
\* have before a run).
Exit ==
    /\ pc' = "idle"
    /\ ti' = 1
    /\ walk' = << >>
    /\ updated_directories' = << >>
    /\ timestamp' = 0
    /\ excluded_mounts' = {}
    /\ root_dev' = 1

\* a variant in which a row replaces the rows its path had (INSERT OR REPLACE
\* on a table keyed by path)
CommitReplacing(rows, inserted) ==
    SelectSeq(rows, LAMBDA r : \A i \in 1..Len(inserted) : inserted[i].path # r.path)
    \o inserted

\* conn.commit() (line 144): the rows the run inserted become durable
Commit(rows, inserted) == rows \o inserted

\* line 144 and lines 148-150: the one commit of the run, then the report
RunCommit ==
    /\ AtEnd
    /\ store' = Commit(store, txn)
    /\ txn' = << >>
    /\ \E in_cron \in BOOLEAN :
        /\ printed' = Report(in_cron)
        /\ hist' = [hist EXCEPT !.prevDone = TRUE, !.prevStart = hist.curStart,
                                !.prevEnd = changes, !.cron = in_cron,
                                !.last = "commit"]
    /\ Exit
    /\ UNCHANGED <<fsVars, target_directories, runs, navVars, scan>>

\* The run is interrupted or killed before line 144: sqlite rolls the open
\* transaction back, and nothing is printed.
Crash ==
    /\ pc \in {"target", "walk"}
    /\ txn' = << >>
    /\ Exit
    /\ hist' = [hist EXCEPT !.last = "crash"]
    /\ UNCHANGED <<fsVars, store, target_directories, printed, runs, navVars,
                   scan>>

\* -------------------------------------------------------- the environment

FileSizes == 1..MaxFileSize

AddFile ==
    /\ changes < MaxChanges
    /\ \E d \in FileDirs, n \in FileSizes :
        /\ files[d] = << >>
        /\ files' = [files EXCEPT ![d] = <<n>>]
        /\ lastChange' = [op |-> "add", dir |-> d, size |-> n]
    /\ changes' = changes + 1
    /\ UNCHANGED <<mtab, clock, store, recVars, navVars, scan, hist>>

RemoveFile ==
    /\ changes < MaxChanges
    /\ \E d \in FileDirs :
        /\ files[d] # << >>
        /\ files' = [files EXCEPT ![d] = << >>]
        /\ lastChange' = [op |-> "remove", dir |-> d, size |-> files[d][1]]
    /\ changes' = changes + 1
    /\ UNCHANGED <<mtab, clock, store, recVars, navVars, scan, hist>>

\* A second passes.  The recorder reads the clock once, at line 109, so only
\* the seconds that pass between two runs are told apart.
Tick ==
    /\ pc = "idle"
    /\ clock < MaxTime
    /\ clock' = clock + 1
    /\ UNCHANGED <<files, mtab, changes, lastChange, store, recVars, navVars,
                   scan, hist>>

\* ------------------------------------------- the navigator's session (fe4.py)

\* the filesystem root and the symbolic link /d/l
Root == <<Sep>>
DL == Join(D, LinkName)

\* the directories the navigator can be in
Browsable == Dirs \cup {Root, DL}

\* os.path.join(directory, name)
PathJoin(directory, name) ==
    IF directory = Root THEN Root \o name ELSE Join(directory, name)

LastSep(path) ==
    CHOOSE i \in 1..Len(path) :
        path[i] = Sep /\ \A j \in (i + 1)..Len(path) : path[j] # Sep

\* os.path.abspath(os.path.join(directory, "..")): the last component goes,
\* and the parent of the root is the root
ParentDirectory(directory) ==
    IF LastSep(directory) = 1 THEN Root
    ELSE SubSeq(directory, 1, LastSep(directory) - 1)

\* os.path.basename
basename(path) == SubSeq(path, LastSep(path) + 1, Len(path))

DotDot == <<".", ".">>

\* os.path.abspath(os.path.join(target_directory, entry)) (lines 308, 358, 364)
EntryPath(directory, name) ==
    IF name = DotDot THEN ParentDirectory(directory) ELSE PathJoin(directory, name)

\* line 235: the names os.listdir gives for which os.path.isdir holds.  isdir
\* follows symbolic links, so /d/l is listed, and listing /d/l lists /d/a.
ListDirs(directory) ==
    IF directory = Root
    THEN IF tree = "bare" THEN << >> ELSE << <<"d">> >>
    ELSE IF directory = DL THEN SubdirNames(DA)
    ELSE SubdirNames(directory)
         \o (IF directory \in LinkDirs THEN <<LinkName>> ELSE << >>)

\* dict.get(key, 0)
Get(dict, key) == IF key \in DOMAIN dict THEN dict[key] ELSE 0

\* sum(dict.values())
RECURSIVE SumValues(_)
SumValues(dict) ==
    IF DOMAIN dict = {} THEN 0
    ELSE LET k == CHOOSE x \in DOMAIN dict : TRUE
         IN  dict[k] + SumValues([x \in DOMAIN dict \ {k} |-> dict[x]])

\* line 239: sorted(directories, key=size, reverse=True).  The sort is stable:
\* names of equal size keep the order of the listing.
RECURSIVE SortedBySize(_, _, _)
SortedBySize(names, directory, sizes) ==
    IF names = << >> THEN << >>
    ELSE LET front == SortedBySize(SubSeq(names, 1, Len(names) - 1), directory, sizes)
             x == names[Len(names)]
             key(n) == Get(sizes, PathJoin(directory, n))
             k == Cardinality({i \in 1..Len(front) : key(front[i]) >= key(x)})
         IN  SubSeq(front, 1, k) \o <<x>> \o SubSeq(front, k + 1, Len(front))

\* lines 242-244 and 253-256: the listing, with ".." first unless the
\* directory is its own parent
Listing(directory, sizes) ==
    LET directories == SortedBySize(ListDirs(directory), directory, sizes)
        real == [i \in 1..Len(directories) |->
                   [name |-> directories[i],
                    size |-> Get(sizes, PathJoin(directory, directories[i]))]]
    IN  IF ParentDirectory(directory) # directory
        THEN <<[name |-> DotDot, size |-> 0]>> \o real
        ELSE real

\* ----- units (lines 177-211)

Kilo == 1024

UnitPower(unit) ==
    IF unit = "TB" THEN 4 ELSE IF unit = "GB" THEN 3 ELSE IF unit = "MB" THEN 2
    ELSE IF unit = "KB" THEN 1 ELSE 0

RECURSIVE DivKilo(_, _)
DivKilo(n, power) == IF power = 0 THEN n ELSE DivKilo(n \div Kilo, power - 1)

\* format_size_in_unit(size, unit) = size / 1024**power, here in hundredths
\* and rounded down: the code only compares the quotient with 0.01, and
\* size / 1024**power >= 0.01 exactly when this is at least 1.
format_size_in_unit(size, unit) == DivKilo(size * 100, UnitPower(unit))

\* update_size_units (lines 194-200)
update_size_units(size) ==
    <<"HR">> \o SelectSeq(<<"TB", "GB", "MB", "KB", "B">>,
                          LAMBDA unit : format_size_in_unit(size, unit) >= 1)

\* a variant that takes the following unit of the list whatever the size is
get_following_unit(size, units, current_index) ==
    (current_index + 1) % Len(units)

\* get_next_unit (lines 182-190); indexes count from 0 as in the code
get_next_unit(size, units, current_index) ==
    LET next_index == (current_index + 1) % Len(units)
        found == {i \in next_index..(Len(units) - 1) :
                    \/ units[i + 1] = "HR"
                    \/ format_size_in_unit(size, units[i + 1]) >= 1}
    IN  IF found = {} THEN 0
        ELSE CHOOSE i \in found : \A j \in found : i <= j

\* ----- draw_bar_chart (lines 149-173)

Min(a, b) == IF a <= b THEN a ELSE b
Max(a, b) == IF a >= b THEN a ELSE b

\* line 153; size_data is a sequence of <<timestamp, size>>
max_size(data) ==
    CHOOSE m \in {data[i][2] : i \in 1..Len(data)} :
        \A i \in 1..Len(data) : data[i][2] <= m

\* line 158
num_bars(data, max_width, bar_offset) ==
    Min(Len(data) - bar_offset, max_width - 2)

\* line 159 divides by num_bars: ZeroDivisionError when it is 0
DrawRaises(data, max_width, bar_offset) ==
    /\ data # << >>
    /\ max_size(data) # 0
    /\ num_bars(data, max_width, bar_offset) = 0

\* line 162: int((size / max_size) * max_height).  range(bar_height) of line
\* 166 is empty when max_height is not positive.
bar_height(size, maximum, max_height) ==
    IF max_height <= 0 THEN 0 ELSE (size * max_height) \div maximum

\* lines 161-173: the bars drawn, left to right.  point is the index in
\* size_data (from 1) of the point the bar stands for, selected says whether
\* the bar is drawn in reverse video and labelled.
draw_bar_chart(data, max_height, max_width, bar_offset, selected_bar) ==
    IF data = << >> THEN << >>
    ELSE IF max_size(data) = 0 THEN << >>
    ELSE LET n == num_bars(data, max_width, bar_offset)
             bar_width == IF n = 0 THEN 1 ELSE Max(1, max_width \div n)
         IN  [b \in 1..Max(0, n) |->
                [point |-> bar_offset + b,
                 bar_x |-> (b - 1) * bar_width + 1,
                 height |-> bar_height(data[bar_offset + b][2], max_size(data),
                                       max_height),
                 selected |-> (b - 1 = selected_bar)]]

\* ----- display_directories (lines 228-398)

\* lines 267-268
maxlines(height) == height \div 2 - 2 - 1

\* line 318
ChartHeight(height) == height - height \div 2 - 6

\* an exception that nothing catches ends the session
Raised(s, exception, function) ==
    [s EXCEPT !.exit = exception, !.raised_in = function]

\* get_directory_size_data has to read the store (lines 77-90) and the read
\* raises sqlite3.OperationalError
ReadRaises(cache, directory) == cache.data[directory] = << >> /\ db = "locked"

\* get_directory_size_data (lines 69-97) against a given cache
DataIn(cache, directory) ==
    IF cache.data[directory] # << >> THEN cache.data[directory][1]
    ELSE History(store, directory)

\* a variant that does not look for the name
IndexOfNone(listing, name) == 0

\* list.index(name) of line 276, counting from 0; ValueError gives 0 (line 278)
IndexOf(listing, name) ==
    IF \E i \in 1..Len(listing) : listing[i].name = name
    THEN (CHOOSE i \in 1..Len(listing) :
            /\ listing[i].name = name
            /\ \A j \in 1..(i - 1) : listing[j].name # name) - 1
    ELSE 0

\* the entry under the selection (lines 303, 358, 364, 373, 384)
Selected(s) == s.directories_with_sizes[s.selected_idx + 1]

SelectedPath(s) == EntryPath(s.target_directory, Selected(s).name)

\* lines 235-280: the top of the outer loop, entered with the directory to
\* show, previous_directory, and sizes as get_last_snapshot_size returned
\* them.  max() of line 264 raises ValueError when the listing is empty.
Build(s, directory, previous, sizes) ==
    LET listing == Listing(directory, sizes)
        cyclers == IF s.size_format_cyclers[directory] # << >>
                   THEN s.size_format_cyclers
                   ELSE [s.size_format_cyclers EXCEPT ![directory] =
                            <<[units |-> update_size_units(SumValues(sizes)),
                               index |-> 0, cycled |-> 0]>>]
        idx == IF previous # << >> THEN IndexOf(listing, basename(previous[1]))
               ELSE 0
        start == IF previous # << >>
                 THEN Max(0, idx - maxlines(s.height) \div 2)
                 ELSE 0
    IN  [s EXCEPT !.target_directory = directory,
                  !.previous_directory = previous,
                  !.directories_with_sizes = listing,
                  !.size_format_cyclers = cyclers,
                  !.current_unit = cyclers[directory][1].units[
                                       cyclers[directory][1].index + 1],
                  !.selected_idx = idx,
                  !.scroll_start = start,
                  !.scroll_end = start + maxlines(s.height) - 1,
                  !.exit = IF listing = << >> THEN "ValueError" ELSE "none",
                  !.raised_in = IF listing = << >> THEN "display_directories"
                                ELSE "none"]

\* a variant in which the scroll window stays where it is
WindowStays(s) == s

\* lines 394-398: the scroll window follows the selection
Window(s) ==
    LET start == IF s.selected_idx < s.scroll_start THEN s.selected_idx
                 ELSE IF s.selected_idx > s.scroll_end
                      THEN s.selected_idx - maxlines(s.height) + 1
                      ELSE s.scroll_start
    IN  [s EXCEPT !.scroll_start = start,
                  !.scroll_end = start + maxlines(s.height) - 1]

\* lines 284-328: the screen is drawn for the session s: the history of the
\* selected entry is read (through the cache) and the chart is drawn
Shown(s, cache, old) ==
    IF s.exit # "none"
    THEN [session |-> s, size_cache |-> cache, size_data |-> old]
    ELSE IF ReadRaises(cache, SelectedPath(s))
    THEN [session |-> Raised(s, "OperationalError", "get_directory_size_data"),
          size_cache |-> cache, size_data |-> old]
    ELSE LET directory == SelectedPath(s)
             data == DataIn(cache, directory)
         IN  [session |-> IF DrawRaises(data, s.width, s.bar_offset)
                          THEN Raised(s, "ZeroDivisionError", "draw_bar_chart")
                          ELSE s,
              size_cache |-> [cache EXCEPT !.data[directory] = <<data>>],
              size_data |-> data]

Show(s, cache) ==
    LET r == Shown(s, cache, size_data)
    IN  /\ session' = r.session
        /\ size_cache' = r.size_cache
        /\ size_data' = r.size_data

\* the bars on the screen
Bars ==
    draw_bar_chart(size_data, ChartHeight(session.height), session.width,
                   session.bar_offset, session.selected_bar)

\* ----- the key events (lines 331-391).  An action is one turn of the inner
\* loop: the key is handled, the scroll window follows (lines 394-398) and the
\* screen is drawn again; after Enter the listing is built first.  A session
\* that has ended (q, or an exception) takes no key.

Running == session.exit = "none"

NavUnchanged == UNCHANGED <<fsVars, store, recVars, tree, db, scan, hist>>

Turn(s, k) ==
    /\ Show(IF s.exit = "none" THEN Window([s EXCEPT !.key = k])
            ELSE [s EXCEPT !.key = k],
            size_cache)
    /\ UNCHANGED directories_sizes
    /\ NavUnchanged

\* lines 332-339: KEY_HOME, or 126
KeyHome ==
    /\ Running
    /\ Turn([session EXCEPT
               !.selected_idx = 0,
               !.scroll_start = 0,
               !.scroll_end = Min(maxlines(session.height) - 1,
                                  Len(session.directories_with_sizes) - 1)],
            "home")

\* lines 340-341
KeyQuit ==
    /\ Running
    /\ session' = [session EXCEPT !.key = "q", !.exit = "quit"]
    /\ UNCHANGED <<size_cache, directories_sizes, size_data>>
    /\ NavUnchanged

\* lines 342-346
KeyLeft ==
    /\ Running
    /\ Turn([session EXCEPT
               !.bar_offset = IF @ > 0 THEN @ - 1 ELSE @,
               !.selected_bar = IF @ > 0 THEN @ - 1 ELSE @],
            "left")

\* the expression of lines 348 and 350:
\* width // max(1, width // min(len(size_data), max(width - 2, 1)))
Capacity(data, width) ==
    width \div Max(1, width \div Min(Len(data), Max(width - 2, 1)))

\* lines 347-351
KeyRight ==
    /\ Running
    /\ LET offset == IF /\ size_data # << >>
                        /\ session.bar_offset
                             < Len(size_data) - Capacity(size_data, session.width)
                     THEN session.bar_offset + 1
                     ELSE session.bar_offset
           bar == IF /\ size_data # << >>
                     /\ session.selected_bar
                          < Min(Len(size_data) - offset,
                                Capacity(size_data, session.width)) - 1
                  THEN session.selected_bar + 1
                  ELSE session.selected_bar
       IN  Turn([session EXCEPT !.bar_offset = offset, !.selected_bar = bar],
                "right")

\* lines 357-359 and 363-365: the chart follows the selection
Follow(s) ==
    IF ReadRaises(size_cache, SelectedPath(s))
    THEN Raised(s, "OperationalError", "get_directory_size_data")
    ELSE LET data == DataIn(size_cache, SelectedPath(s))
         IN  [s EXCEPT !.selected_bar = IF data # << >> THEN Len(data) - 1 ELSE 0]

\* lines 352-359
KeyUp ==
    /\ Running
    /\ Turn(Follow([session EXCEPT
                      !.selected_idx = IF @ > 0 THEN @ - 1 ELSE @,
                      !.scroll_start =
                          IF session.selected_idx = 0 /\ @ > 0 THEN @ - 1 ELSE @]),
            "up")

\* lines 360-365
KeyDown ==
    /\ Running
    /\ Turn(Follow([session EXCEPT
                      !.selected_idx =
                          IF @ < Len(session.directories_with_sizes) - 1
                          THEN @ + 1 ELSE @]),
            "down")

\* lines 366-381: b
KeyUnit ==
    /\ Running
    /\ LET directory == session.target_directory
           cycler == session.size_format_cyclers[directory][1]
           index == cycler.index % Len(cycler.units)
           next == get_next_unit(Selected(session).size, cycler.units, index)
       IN  Turn([session EXCEPT
                   !.size_format_cyclers[directory] =
                       <<[cycler EXCEPT
                            !.index = next,
                            !.cycled = IF next = 0 THEN 0 ELSE @ + 1]>>,
                   !.current_unit = cycler.units[next + 1]],
                "b")

\* lines 382-391 and then lines 235-280: Enter
KeyEnter ==
    /\ Running
    /\ session.enters < MaxEnters
    /\ LET directory == SelectedPath(session)
           previous == IF Selected(session).name = DotDot
                       THEN <<session.target_directory>> ELSE << >>
       IN  IF SnapshotRaises(directory)
           THEN /\ session' = Raised([session EXCEPT
                                        !.key = "enter", !.enters = @ + 1,
                                        !.target_directory = directory,
                                        !.previous_directory = previous],
                                     "OperationalError", "get_last_snapshot_size")
                /\ UNCHANGED <<size_cache, directories_sizes, size_data>>
           ELSE \E sizes \in SnapshotResults(directory) :
                    /\ directories_sizes' = sizes
                    /\ Show(Build([session EXCEPT !.key = "enter",
                                                  !.enters = @ + 1],
                                  directory, previous, sizes),
                            [size_cache EXCEPT !.snapshot[directory] = <<sizes>>])
    /\ NavUnchanged

\* the store becomes unreadable (locked by a writer, or its table missing),
\* and readable again
Lock ==
    /\ Running
    /\ db = "ok"
    /\ db' = "locked"
    /\ UNCHANGED <<fsVars, store, recVars, size_cache, directories_sizes,
                   size_data, session, tree, scan, hist>>

Unlock ==
    /\ Running
    /\ db = "locked"
    /\ db' = "ok"
    /\ UNCHANGED <<fsVars, store, recVars, size_cache, directories_sizes,
                   size_data, session, tree, scan, hist>>

\* ------------------------------------------------------------ specifications

\* Spec: the recorder is run again and again (MaxRuns times) on one command
\* line; between two runs time passes and files are added and removed.

NoScan == [done |-> FALSE, root |-> D, faults |-> NoFaults, total |-> 0,
           visited |-> << >>]

\* a navigator that has not been started
NoSession ==
    [target_directory |-> D, previous_directory |-> << >>,
     directories_with_sizes |-> << >>,
     size_format_cyclers |-> [d \in Browsable |-> << >>],
     current_unit |-> "HR", selected_idx |-> 0, scroll_start |-> 0,
     scroll_end |-> 0, bar_offset |-> 0, selected_bar |-> 0,
     height |-> 0, width |-> 0, key |-> "none", enters |-> 0, exit |-> "off",
     raised_in |-> "none"]

\* the recorder at rest: no run yet
InitIdle ==
    /\ changes = 0
    /\ lastChange = [op |-> "none", dir |-> D, size |-> 0]
    /\ clock = 0
    /\ pc = "idle"
    /\ ti = 1
    /\ walk = << >>
    /\ txn = << >>
    /\ updated_directories = << >>
    /\ timestamp = 0
    /\ excluded_mounts = {}
    /\ root_dev = 1
    /\ printed = << >>
    /\ runs = 0
    /\ scan = NoScan
    /\ hist = [prevDone |-> FALSE, prevStart |-> 0, prevEnd |-> 0, curStart |-> 0,
               startLen |-> 0, cron |-> FALSE, last |-> "none"]

InitRest ==
    /\ InitIdle
    /\ store = << >>
    /\ size_cache = [snapshot |-> [d \in NavDirs |-> << >>],
                     data |-> [d \in ChartDirs |-> << >>]]
    /\ directories_sizes = << >>
    /\ size_data = << >>
    /\ session = NoSession
    /\ tree = "full"
    /\ db = "ok"

Init ==
    /\ files = [d \in FileDirs |-> IF d = DA THEN <<1>> ELSE << >>]
    /\ mtab \in MountTables
    /\ target_directories \in TargetLists
    /\ InitRest

Next ==
    \/ RunStart
    \/ TargetSkip
    \/ TargetStep
    \/ WalkStep
    \/ WalkEnd
    \/ RunCommit
    \/ Crash
    \/ pc = "idle" /\ AddFile
    \/ pc = "idle" /\ RemoveFile
    \/ Tick

Spec == Init /\ [][Next]_vars

\* SpecStore: the recorder and a navigator session share the store.  The
\* navigator's connections see committed rows only and the recorder commits
\* at the end of a run, so a read during a run returns what a read before the
\* run returns: the reads are taken between runs.
NextStore ==
    \/ Next
    \/ pc = "idle" /\ get_last_snapshot_size
    \/ pc = "idle" /\ get_directory_size_data

InitStore ==
    /\ Init
    /\ \/ target_directories = <<D>> /\ ~mtab.mounted
       \/ target_directories = <<DP>> /\ mtab.fstype = "tmpfs"

SpecStore == InitStore /\ [][NextStore]_vars

\* SpecRace: as Spec, and the files of the tree are also added and removed
\* while a run is in progress, between two directories the run visits
\* (get_size at lines 122 and 135 reads the tree as it is at that moment).
\* The command line names one target, or the same target twice.
InitRace ==
    /\ Init
    /\ \/ target_directories \in {<<D>>, <<D, D>>} /\ ~mtab.mounted
       \/ target_directories = <<DP>> /\ mtab.fstype = "tmpfs"

NextRace ==
    \/ Next
    \/ pc # "idle" /\ AddFile
    \/ pc # "idle" /\ RemoveFile

SpecRace == InitRace /\ [][NextRace]_vars

\* SpecScan: get_size on its own, on every filesystem of the model, with and
\* without entries that cannot be read.
Paths(d, fs) == {Entries(d, fs)[i].path : i \in 1..Len(Entries(d, fs))}

FaultSets(fs) ==
    {NoFaults}
    \cup {[open |-> {d}, stat |-> {}] : d \in Dirs}
    \cup {[open |-> {}, stat |-> {e}] : e \in UNION {Paths(d, fs) : d \in Dirs}}

InitScan ==
    /\ files \in [FileDirs -> {<< >>} \cup {<<n>> : n \in FileSizes}]
    /\ mtab \in MountTables
    /\ target_directories = <<D>>
    /\ InitRest

Scan ==
    /\ ~scan.done
    /\ \E root \in Dirs, faults \in FaultSets(files) :
        LET r == ScanOf(root, get_root_dev(root), ExcludedMounts, files, faults)
        IN  /\ scan' = [done |-> TRUE, root |-> root, faults |-> faults,
                        total |-> r.total, visited |-> r.visited]
            /\ UNCHANGED <<fsVars, store, recVars, navVars, hist>>

SpecScan == InitScan /\ [][Scan]_vars

\* SpecNav: a navigator session over a store that does not change.  The
\* code uses the width only at lines 158, 159, 348 and 350, through width - 2
\* and width // max(1, width // min(len, width - 2)), which is width for every
\* len >= width - 2 as soon as width > 4: a terminal of 6 columns stands for
\* the wider ones.  (The fixed texts the code writes, which need some 35
\* columns, are not part of the model.)  With 6 rows no row of the listing
\* fits on the screen (maxlines is 0); with 15 rows four do, and the chart is
\* 2 rows high.
Small == [height |-> 6, width |-> 6]
Large == [height |-> 15, width |-> 6]

\* rows of one path, one per second
Series(path, sizes) == [i \in 1..Len(sizes) |-> Row(path, sizes[i], i)]

\* a history of MaxScroll points more than the terminal has columns, whose
\* greatest size is the last one
LongSizes(width) ==
    [i \in 1..(width + MaxScroll) |->
        IF i = width + MaxScroll THEN 4 ELSE IF i % 2 = 0 THEN 3 ELSE 2]

\* the store after recorder runs on /d: /d/a has the long history, /d/p2 two
\* rows, /d and /d/p one, /d/p/s none
NavStore(width) ==
    Series(DA, LongSizes(width)) \o Series(DP2, <<3, 4>>)
    \o Series(DP, <<1>>) \o Series(D, <<9>>)

\* the sessions of the model: in /d with the recorded store on the large
\* terminal, in /d with an empty store on the small one, and in a root
\* directory that has no subdirectory
Sessions ==
    { [tree |-> "full", start |-> D, term |-> Large, store |-> NavStore(Large.width)],
      [tree |-> "full", start |-> D, term |-> Small, store |-> << >>],
      [tree |-> "bare", start |-> Root, term |-> Large, store |-> << >>] }

InitNav ==
    /\ InitIdle
    /\ files = [d \in FileDirs |-> IF d = DA THEN <<1>> ELSE << >>]
    /\ mtab = [mounted |-> FALSE, dev |-> 1, fstype |-> "ext4"]
    /\ target_directories = <<D>>
    /\ \E in \in Sessions :
           /\ tree = in.tree
           /\ db = "ok"
           /\ store = in.store
           /\ \E sizes \in LatestSizes(store, in.start) :
               LET blank == [NoSession EXCEPT !.height = in.term.height,
                                              !.width = in.term.width,
                                              !.exit = "none"]
                   none == [snapshot |-> [d \in Browsable |-> << >>],
                            data |-> [d \in Browsable |-> << >>]]
                   r == Shown(Build(blank, in.start, << >>, sizes),
                              [none EXCEPT !.snapshot[in.start] = <<sizes>>],
                              << >>)
               IN  /\ directories_sizes = sizes
                   /\ session = r.session
                   /\ size_cache = r.size_cache
                   /\ size_data = r.size_data

NextNav ==
    \/ KeyHome
    \/ KeyQuit
    \/ KeyLeft
    \/ KeyRight
    \/ KeyUp
    \/ KeyDown
    \/ KeyUnit
    \/ KeyEnter

SpecNav == InitNav /\ [][NextNav]_vars

\* SpecRead: the same session, over a store whose reads may fail.
NextRead ==
    \/ NextNav
    \/ Lock
    \/ Unlock

SpecRead == InitNav /\ [][NextRead]_vars

\* ------------------------------------------------------------------ claims

Pairs(rows) == {<<rows[i].path, rows[i].size>> : i \in 1..Len(rows)}

\* the rows the last run that committed added to the store
Appended == SubSeq(store, hist.startLen + 1, Len(store))

\* the filesystem has not changed since the last committed run started
UnchangedSincePrev == hist.prevDone /\ hist.prevStart = changes

\* C1: when the filesystem has not changed since the previous run started, a
\* run inserts no row, at any point up to its commit, and the last size of
\* every directory stays what the previous run left.
C1_Idempotent ==
    (pc # "idle" /\ UnchangedSincePrev) =>
        /\ txn = << >>
        /\ \A d \in Dirs :
            get_last_recorded_size(Visible, d) = get_last_recorded_size(store, d)

\* a run has reached its commit with nothing to write, after an earlier run
\* had recorded a change of /d/a
C1_Witness ==
    /\ AtEnd
    /\ UnchangedSincePrev
    /\ Len(RowsOf(store, DA)) >= 2

\* C2: one file of size N was added to a recorded directory between the
\* previous run and this one and nothing else changed.  At its commit the run
\* has inserted exactly one row for that directory and one for each of its
\* ancestors up to a target, each of the previous size plus N, no other row,
\* and has noted each of these paths as changed.
C2_OneFileAdded ==
    /\ AtEnd
    /\ hist.prevDone
    /\ hist.prevStart = hist.prevEnd
    /\ hist.curStart = hist.prevEnd + 1
    /\ changes = hist.curStart
    /\ lastChange.op = "add"
    /\ RowsOf(store, lastChange.dir) # << >>

C2_ChangeDetection ==
    C2_OneFileAdded =>
        LET expected == {p \in Dirs :
                            /\ Under(lastChange.dir, p)
                            /\ \E i \in 1..Len(target_directories) :
                                  Under(p, target_directories[i])}
        IN  /\ \A p \in expected :
                /\ Len(RowsOf(txn, p)) = 1
                /\ get_last_recorded_size(store, p) # << >>
                /\ RowsOf(txn, p)[1].size =
                       get_last_recorded_size(store, p)[1] + lastChange.size
                /\ \E j \in 1..Len(updated_directories) :
                       updated_directories[j][1] = p
            /\ \A i \in 1..Len(txn) : txn[i].path \in expected

\* C3: every row of the store stays where it is, unchanged, in every step of
\* the recorder and of the navigator: the store only grows at its end.
C3_AppendOnly ==
    [][/\ Len(store') >= Len(store)
       /\ SubSeq(store', 1, Len(store)) = store]_vars

\* the store holds two rows of one path and the navigator has read both the
\* listing and a history from it
C3_Witness ==
    /\ Len(RowsOf(store, DA)) >= 2
    /\ DOMAIN directories_sizes # {}
    /\ Len(size_data) >= 1

\* the size of the row appended last for a path
LastAppended(rows, path) == RowsOf(rows, path)[Len(RowsOf(rows, path))].size

\* C4: the rows of a path have strictly increasing timestamps in the order
\* they were appended, and both the recorder's last size and every size the
\* navigator may read for its listing are the size of the row appended last.
C4_LatestIsLastAppended ==
    \A d \in Dirs :
        LET rs == RowsOf(store, d) IN
        rs # << >> =>
            /\ \A i \in 1..Len(rs), j \in 1..Len(rs) :
                   i < j => rs[i].timestamp < rs[j].timestamp
            /\ get_last_recorded_size(store, d) = << LastAppended(store, d) >>
            /\ \A f \in SnapshotResults(D) :
                   d \in DOMAIN f /\ f[d] = LastAppended(store, d)

\* C5: whenever a run ends, by its commit or by an interruption, every row it
\* had inserted is in the store.
C5_RowsSurviveCrash ==
    [][(pc # "idle" /\ pc' = "idle") => store' = store \o txn]_vars

\* the files of the model with the ones at or under a directory taken away
Without(fs, d) == [x \in FileDirs |-> IF Under(x, d) THEN << >> ELSE fs[x]]

\* the size a run records for a directory when the files at or under m are
\* not there (the files do not change during a run)
SizeWithout(a, m) ==
    get_size(a, root_dev, excluded_mounts, Without(files, m), NoFaults)

\* C6: for a mount point M below a target (and no target at or below M), no
\* row has a path at or under M, and the size a run records for an ancestor of
\* M is the size of that ancestor with the files under M taken away.
C6_MountExcluded ==
    \A m \in Dirs :
        ( /\ IsMountPoint(m)
          /\ \A i \in 1..Len(target_directories) :
                /\ ~Under(target_directories[i], m)
                /\ Under(m, target_directories[i]) ) =>
            /\ \A i \in 1..Len(Visible) : ~Under(Visible[i].path, m)
            /\ \A i \in 1..Len(txn) :
                Under(m, txn[i].path) => txn[i].size = SizeWithout(txn[i].path, m)

\* C7: no row has a path at or under an excluded mount, and the files at or
\* under an excluded mount add nothing to the size a run records.
C7_ExcludedSkipped ==
    \A m \in ExcludedMounts :
        /\ \A i \in 1..Len(Visible) : ~Under(Visible[i].path, m)
        /\ \A i \in 1..Len(txn) : txn[i].size = SizeWithout(txn[i].path, m)

\* the directories reached from root through directories of device dev that
\* are not at or under an excluded prefix
Reached(root, dev, excluded) ==
    {d \in Dirs :
        /\ Under(d, root)
        /\ \A a \in Dirs :
              (Under(d, a) /\ Under(a, root)) =>
                  /\ st_dev(a) = dev
                  /\ \A m \in excluded : ~Under(a, m)}

RECURSIVE SumFiles(_, _)
SumFiles(ds, fs) ==
    IF ds = {} THEN 0
    ELSE LET d == CHOOSE x \in ds : TRUE
         IN  (IF d \in FileDirs /\ fs[d] # << >> THEN fs[d][1] ELSE 0)
             + SumFiles(ds \ {d}, fs)

\* C8: a scan in which every entry can be read returns the sum of the sizes
\* of the regular files of the directories reached from the root, and expands
\* no directory twice and nothing that is not a directory (not the link).
C8_ExactSum ==
    (scan.done /\ scan.faults = NoFaults) =>
        LET reached == Reached(scan.root, get_root_dev(scan.root), ExcludedMounts)
        IN  /\ scan.total = SumFiles(reached, files)
            /\ \A i \in 1..Len(scan.visited) : scan.visited[i] \in Dirs
            /\ \A i \in 1..Len(scan.visited), j \in 1..Len(scan.visited) :
                   scan.visited[i] = scan.visited[j] => i = j

\* the directories whose file a scan of root cannot reach when these entries
\* cannot be read: the ones at or under a directory, of the root's tree, that
\* cannot be opened or (the root apart, which is not stat'ed) stat'ed, and
\* the ones whose file cannot be stat'ed
Unreadable(root, faults) ==
    {d \in FileDirs :
        \/ \E x \in faults.open : Under(d, x) /\ Under(x, root)
        \/ \E x \in faults.stat : Under(d, x) /\ Under(x, root) /\ x # root
        \/ Join(d, FileName) \in faults.stat}

\* C9: a scan returns what it returns when the entries that cannot be read,
\* and what lies under them, are not there: every other entry is counted.
C9_OthersCounted ==
    scan.done =>
        scan.total = get_size(scan.root, get_root_dev(scan.root), ExcludedMounts,
                              [d \in FileDirs |->
                                  IF d \in Unreadable(scan.root, scan.faults)
                                  THEN << >> ELSE files[d]],
                              NoFaults)

\* C10: what a run that committed has printed is the set of the (path, size)
\* of the rows it added to the store.
C10_ReportIsAppended ==
    (pc = "idle" /\ hist.last = "commit") => Pairs(Appended) =
        {printed[i] : i \in 1..Len(printed)}

\* C10, amended: the same, of a run that did not run unattended.
C10_ReportWhenAttended ==
    (pc = "idle" /\ hist.last = "commit" /\ ~hist.cron) => Pairs(Appended) =
        {printed[i] : i \in 1..Len(printed)}

\* an attended run has committed and reported a change, and a directory
\* recorded before is not in its report
C10_Witness ==
    /\ pc = "idle"
    /\ hist.last = "commit"
    /\ ~hist.cron
    /\ printed # << >>
    /\ \E d \in Dirs :
        /\ RowsOf(store, d) # << >>
        /\ \A i \in 1..Len(printed) : printed[i][1] # d

\* C11: no key event, and no first drawing of the screen, ends the session
\* with an exception: the session runs on, or has ended by the q key.
C11_NoError == session.exit \in {"off", "none", "quit"}

\* the session went up from the directory it had entered ("..")
WentUp == session.key = "enter" /\ session.previous_directory # << >>

\* the selection is inside the scroll window
InWindow(s) == s.scroll_start <= s.selected_idx /\ s.selected_idx <= s.scroll_end

\* what C12 says of the step that enters ".." from the directory C, apart from
\* the scroll window
ReturnsTo(C) ==
    /\ session'.previous_directory = <<C>>
    /\ session'.target_directory = ParentDirectory(C)
    /\ IF \E i \in 1..Len(session'.directories_with_sizes) :
              session'.directories_with_sizes[i].name = basename(C)
       THEN Selected(session').name = basename(C)
       ELSE session'.selected_idx = 0

EntersDotDot == KeyEnter /\ Selected(session).name = DotDot

\* C12: entering ".." from the directory C makes C the previous directory,
\* the parent of C the current one, selects the entry named like C (the first
\* entry if there is none), and the selection is inside the scroll window.
C12_ReturnSelects ==
    [][EntersDotDot => ReturnsTo(session.target_directory) /\ InWindow(session')]_vars

\* C12, amended: the same, the selection being inside the scroll window when
\* the terminal has room for at least one row of the listing.
C12_ReturnSelectsVisible ==
    [][EntersDotDot =>
         /\ ReturnsTo(session.target_directory)
         /\ maxlines(session.height) >= 1 => InWindow(session')]_vars

\* the session entered a subdirectory and came back by "..", to a selection
\* that is not the first entry, on a terminal that shows the listing
C12_Witness ==
    /\ WentUp
    /\ session.exit = "none"
    /\ session.enters = 2
    /\ session.target_directory = D
    /\ session.selected_idx > 0
    /\ maxlines(session.height) >= 1
    /\ InWindow(session)

\* C13: entering the subdirectory S of C makes C/S the current directory,
\* leaves no previous directory, and resets the selection, the scroll window,
\* the chart offset and the selected bar to 0.
C13_EnterResets ==
    [][(KeyEnter /\ Selected(session).name # DotDot) =>
         /\ session'.target_directory
              = PathJoin(session.target_directory, Selected(session).name)
         /\ session'.previous_directory = << >>
         /\ session'.selected_idx = 0
         /\ session'.scroll_start = 0
         /\ session'.bar_offset = 0
         /\ session'.selected_bar = 0]_vars

\* C14: after the Home key the first entry is selected, the scroll window
\* starts at the first entry and the chart offset is 0 (on a terminal that
\* has room for at least one row of the listing).
C14_HomeResets ==
    (session.key = "home" /\ maxlines(session.height) >= 1) =>
        /\ session.selected_idx = 0
        /\ session.scroll_start = 0
        /\ session.bar_offset = 0

\* C15: after an Up or Down key that changed the selection, the chart is the
\* history of the newly selected entry, and if bars are drawn exactly one is
\* highlighted: the one of the last point of that history.
C15_LatestBarSelected ==
    [][((KeyUp \/ KeyDown)
          /\ session'.selected_idx # session.selected_idx
          /\ session'.exit = "none") =>
         /\ size_data' = History(store, SelectedPath(session'))
         /\ LET bars == draw_bar_chart(size_data', ChartHeight(session'.height),
                                       session'.width, session'.bar_offset,
                                       session'.selected_bar)
            IN  bars # << >> =>
                  /\ \E b \in 1..Len(bars) : bars[b].selected
                  /\ \A b \in 1..Len(bars) :
                         bars[b].selected => bars[b].point = Len(size_data')]_vars

\* the history has a point to the right of the last bar of the viewport
MoreToTheRight ==
    /\ size_data # << >>
    /\ session.bar_offset + num_bars(size_data, session.width, session.bar_offset)
         < Len(size_data)

\* C16: the Right key adds one to the chart offset when the history of the
\* selected entry has a point to the right of the viewport's last bar, and
\* leaves the offset as it is otherwise.
C16_ScrollRight ==
    [][KeyRight =>
         session'.bar_offset = IF MoreToTheRight THEN session.bar_offset + 1
                               ELSE session.bar_offset]_vars

\* the unit cycle of the current directory
Cycler(s) == s.size_format_cyclers[s.target_directory][1]

\* the size is at least 0.01 in the unit
Shows(size, unit) == DivKilo(size * 100, UnitPower(unit)) >= 1

C18_UnitsOfOwnSize ==
    \A d \in Browsable :
        session.size_format_cyclers[d] # << >> =>
            \A own \in (IF RowsOf(store, d) = << >> THEN {0} ELSE LatestOf(store, d)) :
                session.size_format_cyclers[d][1].units
                  = <<"HR">> \o SelectSeq(<<"TB", "GB", "MB", "KB", "B">>,
                                          LAMBDA unit : Shows(own, unit))

\* C19: whenever the navigator builds the listing of a directory, the sizes
\* it gets are the latest sizes of the store at that moment: in every state,
\* what get_last_snapshot_size may return is what the query gives.
C19_ListingFresh ==
    \A d \in NavDirs : SnapshotResults(d) \subseteq LatestSizes(store, d)

\* the sizes of the points of the bars on the screen
VisibleSizes == {size_data[Bars[b].point][2] : b \in 1..Len(Bars)}

\* h is a nearest integer to a / b
Nearest(h, a, b) == 2 * h * b - 2 * a <= b /\ 2 * a - 2 * h * b <= b

\* C20: the height of every bar on the screen is its size times the height
\* of the chart, divided by the greatest size among the points on the screen,
\* rounded.
C20_BarHeights ==
    (session.exit = "none" /\ ChartHeight(session.height) > 0) =>
        \A b \in 1..Len(Bars) :
            LET M == CHOOSE m \in VisibleSizes : \A x \in VisibleSizes : x <= m
            IN  /\ M > 0
                /\ Nearest(Bars[b].height,
                           size_data[Bars[b].point][2] * ChartHeight(session.height),
                           M)

\* C21: a failing read of the selected directory's history does not end the
\* session: no session ends with the exception of get_directory_size_data.
C21_ReadFailureSurvived ==
    ~(/\ session.exit = "OperationalError"
      /\ session.raised_in = "get_directory_size_data")

\* what C22 says of a step, apart from the scroll window: Down and Up move
\* the selection by one, or not at all at the end of the listing, and after
\* a key the selection is an index of the listing
MovesByOne ==
    /\ KeyDown =>
         session'.selected_idx =
             IF session.selected_idx < Len(session.directories_with_sizes) - 1
             THEN session.selected_idx + 1 ELSE session.selected_idx
    /\ KeyUp =>
         session'.selected_idx =
             IF session.selected_idx > 0
             THEN session.selected_idx - 1 ELSE session.selected_idx
    /\ NextNav =>
         /\ 0 <= session'.selected_idx
         /\ session'.selected_idx < Len(session'.directories_with_sizes)

\* what C22 says of the scroll window: after a key the selection is inside
\* it, and Down and Up shift it by one row at most
WindowFollows ==
    /\ NextNav => InWindow(session')
    /\ (KeyDown \/ KeyUp) =>
         /\ session'.scroll_start - session.scroll_start \in {-1, 0, 1}
         /\ session'.scroll_end - session.scroll_end \in {-1, 0, 1}

\* C22: Down and Up change the selection by exactly one, except at the end of
\* the listing where they leave it; after every key the selection is an index
\* of the listing and inside the scroll window, and Down and Up shift the
\* window by at most one row.
C22_SelectionInWindow ==
    [][MovesByOne /\ WindowFollows]_vars

\* C22, amended: the same, the scroll window being as said when the terminal
\* has room for at least one row of the listing.
C22_SelectionInWindowVisible ==
    [][MovesByOne /\ (maxlines(session.height) >= 1 => WindowFollows)]_vars

\* Down has moved the selection below the last row of the scroll window, and
\* the window has followed by one row
C22_Witness ==
    /\ session.key = "down"
    /\ session.exit = "none"
    /\ maxlines(session.height) >= 1
    /\ session.selected_idx = Len(session.directories_with_sizes) - 1
    /\ session.scroll_start = 1
    /\ session.scroll_end = session.selected_idx

\* C23: whenever the chart of the selected entry has a history to show, the
\* chart offset is below the length of the history and the selected bar below
\* the number of bars drawn, and exactly one bar is highlighted: the one of
\* the point bar_offset + selected_bar.
C23_OneBarHighlighted ==
    (session.exit = "none" /\ size_data # << >> /\ max_size(size_data) > 0) =>
        /\ session.bar_offset < Len(size_data)
        /\ session.selected_bar < Len(Bars)
        /\ Cardinality({b \in 1..Len(Bars) : Bars[b].selected}) = 1
        /\ \A b \in 1..Len(Bars) :
               Bars[b].selected =>
                   Bars[b].point = session.bar_offset + session.selected_bar + 1

\* C24: within one run of the recorder at most one row is inserted for any
\* path, whatever the target list and whatever happens to the files during
\* the run: the rows of the open transaction have distinct paths.
C24_OneRowPerPath ==
    \A i, j \in 1..Len(txn) : i < j => txn[i].path # txn[j].path

====
